---- MODULE Spec2Model ----
(***************************************************************************)
(* State-machine model of src/index.js (EKOX testnet auto bot): the nonce  *)
(* tracker, the five chain operations, the daily-activity cycle and the    *)
(* start/stop/swap handlers of the interactive surface.                    *)
(*                                                                         *)
(* JavaScript runs every handler to its next `await` without interleaving, *)
(* so one action here is "an awaited promise settles and the code runs to  *)
(* the next await".  The chain (RPC answers, receipts), the timers and the *)
(* user are the environment.                                               *)
(***************************************************************************)
EXTENDS Integers, FiniteSets, Sequences, TLC

\* ---------------------------------------------------------------- bounds
MaxAccounts == 2      \* wallets in pk.txt
MaxNonce    == 3      \* highest nonce a reservation may hand out
MaxCycles   == 2      \* runDailyActivity executions alive at the same time
MaxWatchers == 1      \* stop-completion intervals pending, per kind
MaxLeaked   == 1      \* pending next-cycle timers the handle lost track of
MaxAmount   == 2      \* largest amount, token balance and allowance, in 0.01 token
MaxGasCost  == 1      \* largest gasFee * gasLimit, in the same unit
MaxTime     == 1      \* largest createdAt and largest coolDownPeriod, in seconds
MaxFee      == 2      \* largest fee value the network reports, in gwei
MaxFine     == 16     \* largest bound of a range, in 0.00001 token

\* ------------------------------------------------------------- vocabulary
Absent   == -1                          \* nonceTracker[key] === undefined
NaN      == -9                          \* Number(undefined), parseInt("abc")
KeyForms == {"checksum", "lower"}       \* wallet.address / .toLowerCase()
CycleKinds == {"stake", "unstake", "claim"}
SwapKinds  == {"wrap", "unwrap"}
Swapper  == 0                           \* the amountForm submit handler
Bodies   == 1..MaxCycles                \* runDailyActivity executions
Procs    == {Swapper} \cup Bodies

VARIABLES
  accounts,               \* the entries of pk.txt in file order: [privateKey]
  slots,                  \* how many runDailyActivity executions may be alive at once
  feeData,                \* what provider.getFeeData() answers a getFeeParams call
  feeParams,              \* what that getFeeParams call returned, NoParams before
  fineRange,              \* a configured [min, max] range in units of 0.00001 token
  amount,                 \* the amount text the cycle drew from it, Absent before
  submitTimer,            \* configForm submit's 100 ms timer is pending
  configFile,             \* the document config.json holds
  dailyActivityConfig,    \* [stake, unstake, claim |-> repetitions, and the two ranges]
  activityRunning, isCycleRunning, shouldStop,
  dailyActivityInterval,  \* "null" | "live" (timer pending) | "fired" (stale handle)
  leakedTimers,           \* pending next-cycle timers no handle refers to
  activeProcesses,
  nonceTracker,           \* [<<account, keyForm>> -> Absent or last reserved nonce]
  selectedWalletIndex,
  isSubmitting,
  amountFormVisible,
  menuItems,              \* "Start" | "Stop": first item of menuBox
  menuWatchers,           \* stopCheckInterval timers of the Stop handler
  finallyWatchers,        \* stopCheckInterval timers of runDailyActivity's finally
  proc,                   \* per handler execution: where it is suspended
  pendingCount,           \* chain: getTransactionCount(address, "pending")
  \* observation (history) variables, written but never read by the program
  chosenWallet,           \* the wallet picked in walletSelectionList while amountForm is open, else 0
  evicted,                \* keys deleted by a nonce error and not reserved since
  handed,                 \* per account: nonces handed out since the last eviction/reset
  stoppedIdle             \* a stop was reported complete and no start came since

vars == << accounts, slots, chosenWallet, feeData, feeParams, fineRange, amount, submitTimer, configFile, dailyActivityConfig, activityRunning, isCycleRunning, shouldStop,
           dailyActivityInterval, leakedTimers, activeProcesses, nonceTracker,
           selectedWalletIndex, isSubmitting, amountFormVisible, menuItems,
           menuWatchers, finallyWatchers, proc, pendingCount,
           evicted, handed, stoppedIdle >>

Accounts == 1..MaxAccounts
NumAccounts == Len(accounts)

\* loadAccounts keeps every non-empty line of pk.txt; `new ethers.Wallet(key)`
\* throws for a line that is not a private key.
KeyKinds == {"valid", "invalid"}
ValidKey(a) == accounts[a].privateKey = "valid"
ValidKeys(n) == [i \in 1..n |-> [privateKey |-> "valid"]]
Keys     == Accounts \X KeyForms
\* A floor that forgets the value it bounds.
FloorOnly(a, b) == a

Max(a, b) == IF a >= b THEN a ELSE b

\* A handler execution: pc is the await it is suspended at; kind, a (account
\* index), c (repetition counter) and slp (which delay) are its locals; nonce is
\* the value getNextNonce returned to it; err is the message of the error its
\* last operation threw, as the caller's catch logs it.  fresh (the reservation
\* was the first after an eviction) and stopSeen (a stop was requested while
\* the execution was alive) are observations.
\* done is an observation: the attempts << wallet, kind >> the execution has
\* started, in order.
\* amt is the operation's amountWei, bal the ethBalance performWrap read,
\* approved the value in approveToken's transaction data, approvals the
\* approve transactions the attempt has broadcast, createdAt and coolDown what
\* performClaim read for its readiness test.  gasOk and sent are observations:
\* the attempt's gas check has passed, and the main transactions it has
\* broadcast.
IdleProc == [pc |-> "idle", kind |-> "none", a |-> 0, c |-> 0, slp |-> "none",
             nonce |-> Absent, err |-> "none", fresh |-> FALSE, stopSeen |-> FALSE,
             done |-> << >>, amt |-> 0, bal |-> Absent, approved |-> Absent,
             approvals |-> 0, createdAt |-> Absent, coolDown |-> Absent,
             gasOk |-> FALSE, sent |-> 0]
EmptyTracker == [k \in Keys |-> Absent]

\* ------------------------------------------------------------ nonce tracker
\* getNextNonce, lines 327-330: `nonceTracker[nonceKey] || (pendingNonce - 1n)`
\* takes the right operand for every falsy left operand: undefined and 0n.
LastUsedNonce(tracked, pendingNonce) ==
  IF tracked # Absent /\ tracked # 0 THEN tracked ELSE pendingNonce - 1

\* A tracker that counts on from its own last value and ignores the chain.
GetNextNonceIgnoringChain(tracked, pendingNonce) ==
  LastUsedNonce(tracked, pendingNonce) + 1

GetNextNonce(tracked, pendingNonce) ==
  LET lastUsedNonce == LastUsedNonce(tracked, pendingNonce)
  IN  IF pendingNonce > lastUsedNonce + 1 THEN pendingNonce ELSE lastUsedNonce + 1

\* The key getNextNonce builds from the address its caller passes: approveToken
\* passes wallet.address (checksummed), the five operations pass
\* wallet.address.toLowerCase().
NonceKey(a, pc) == <<a, IF pc \in {"apFee", "apNonce", "apSend"} THEN "checksum" ELSE "lower">>

\* `error.message.includes("nonce")` in the catch block around the main
\* transaction's getNextNonce + sendTransaction.
EvictsOn(err) == err = "nonce"

\* ------------------------------------------------- the cycle's control flow
Reps(k) == dailyActivityConfig[k]

\* The synchronous run of runDailyActivity's loops from one point to the next
\* await.  It yields the operation to start, the delay to start, or "end"
\* (the code after the account loop).  sel is the account index written to
\* selectedWalletIndex on the way (0: none).
RECURSIVE RepHead(_, _, _, _, _), KindTail(_, _, _, _), AcctHead(_, _)

AcctTail(a, stop, sel) ==
  IF a < NumAccounts /\ ~stop
  THEN [at |-> "sleep", slp |-> "nextAcct", kind |-> "none", a |-> a, c |-> 0, sel |-> sel]
  ELSE AcctHead(a + 1, stop)

RepHead(k, a, c, stop, sel) ==
  IF c < Reps(k) /\ ~stop
  THEN [at |-> "op", slp |-> "none", kind |-> k, a |-> a, c |-> c, sel |-> sel]
  ELSE KindTail(k, a, stop, sel)

\* A wallet's loops with the claim loop ahead of the unstake loop.
ClaimBeforeUnstake(k, a, stop, sel) ==
  CASE k = "stake"   -> RepHead("claim", a, 0, stop, sel)
    [] k = "claim"   -> RepHead("unstake", a, 0, stop, sel)
    [] OTHER         -> AcctTail(a, stop, sel)

KindTail(k, a, stop, sel) ==
  CASE k = "stake" ->
         IF Reps("stake") > 0 /\ Reps("unstake") > 0 /\ ~stop
         THEN [at |-> "sleep", slp |-> "toUnstake", kind |-> "none", a |-> a, c |-> 0, sel |-> sel]
         ELSE RepHead("unstake", a, 0, stop, sel)
    [] k = "unstake" ->
         IF Reps("unstake") > 0 /\ Reps("claim") > 0 /\ ~stop
         THEN [at |-> "sleep", slp |-> "toClaim", kind |-> "none", a |-> a, c |-> 0, sel |-> sel]
         ELSE RepHead("claim", a, 0, stop, sel)
    [] OTHER -> AcctTail(a, stop, sel)

AcctHead(a, stop) ==
  IF a <= NumAccounts /\ ~stop
  THEN IF ValidKey(a)
       THEN RepHead("stake", a, 0, stop, a)
       ELSE \* line 800 throws after line 797 wrote selectedWalletIndex
            [at |-> "throw", slp |-> "none", kind |-> "none", a |-> 0, c |-> 0, sel |-> a]
  ELSE [at |-> "end", slp |-> "none", kind |-> "none", a |-> 0, c |-> 0, sel |-> 0]

\* After `await updateWallets()` in the finally of repetition c of kind k.
RepNext(k, a, c, stop) ==
  IF c < Reps(k) - 1 /\ ~stop
  THEN [at |-> "sleep", slp |-> "rep", kind |-> k, a |-> a, c |-> c, sel |-> 0]
  ELSE RepHead(k, a, c + 1, stop, 0)

\* After `await sleep(...)` returned.
AfterSleep(slp, k, a, c, stop) ==
  CASE slp = "rep"       -> RepHead(k, a, c + 1, stop, 0)
    [] slp = "toUnstake" -> RepHead("unstake", a, 0, stop, 0)
    [] slp = "toClaim"   -> RepHead("claim", a, 0, stop, 0)
    [] OTHER             -> AcctHead(a + 1, stop)

\* The amounts `(Math.random() * (max - min) + min).toFixed(4)` can yield for a
\* stake (line 809) or an unstake (line 832), with the whole multiples of 0.01
\* standing for the values of the range (a range loaded with min above max
\* yields the values between max and min); a claim takes no amount.
Between(a, b) == IF a <= b THEN a..b ELSE b..a

RandomAmounts(k) ==
  CASE k = "stake"   -> Between(dailyActivityConfig.wethStakeRange.min,
                                dailyActivityConfig.wethStakeRange.max)
    [] k = "unstake" -> Between(dailyActivityConfig.exethUnstakeRange.min,
                                dailyActivityConfig.exethUnstakeRange.max)
    [] OTHER         -> {0}

\* The first await of each operation.
FirstPc(k) ==
  CASE k \in {"stake", "unstake", "unwrap"} -> "balance"
    [] k = "claim" -> "count"
    [] OTHER       -> "ethBalance"

OpPcs == {"balance", "ethBalance", "allowance", "apFee", "apNonce", "apSend", "apWait",
          "count", "request", "coolDown", "block", "fee", "gas", "nonce", "send", "confirm"}

\* ------------------------------------------------------- shared state updates
\* The variables no chain operation step writes.
schedVars == << accounts, slots, chosenWallet, feeData, feeParams, fineRange, amount, submitTimer, configFile, dailyActivityConfig, activityRunning, isCycleRunning, shouldStop,
                dailyActivityInterval, leakedTimers, activeProcesses, selectedWalletIndex,
                amountFormVisible, menuItems, menuWatchers, finallyWatchers, stoppedIdle >>
nonceVars == << nonceTracker, pendingCount, evicted, handed >>

\* updateMenu(): the first menu item follows isCycleRunning.
MenuFor(running) == IF running THEN "Stop" ELSE "Start"

\* An operation threw (or performWrap/performUnwrap returned to the swap
\* handler's catch): the cycle's catch + finally lead to `await updateWallets()`,
\* the swap handler's catch leads to `isSubmitting = false`.
Failed(p, msg) ==
  /\ proc' = [proc EXCEPT ![p] = IF p = Swapper THEN [IdleProc EXCEPT !.err = msg]
                                 ELSE [@ EXCEPT !.pc = "refresh", !.nonce = Absent,
                                                !.fresh = FALSE, !.err = msg, !.amt = 0,
                                                !.bal = Absent, !.approved = Absent,
                                                !.approvals = 0, !.createdAt = Absent,
                                                !.coolDown = Absent, !.gasOk = FALSE,
                                                !.sent = 0]]
  /\ isSubmitting' = IF p = Swapper THEN FALSE ELSE isSubmitting

\* An operation returned normally: both callers await updateWallets() next.
Succeeded(p) ==
  /\ proc' = [proc EXCEPT ![p] = [@ EXCEPT !.pc = "refresh", !.nonce = Absent,
                                            !.fresh = FALSE, !.amt = 0, !.bal = Absent,
                                            !.approved = Absent, !.approvals = 0,
                                            !.gasOk = FALSE, !.sent = 0]]
  /\ UNCHANGED isSubmitting

Goto(p, pc) ==
  /\ proc' = [proc EXCEPT ![p] = [@ EXCEPT !.pc = pc]]
  /\ UNCHANGED isSubmitting

\* A cycle end that leaves the tracker as it is.
TrackerKept == nonceTracker

\* `nonceTracker = {}`, line 928, the last statement of the finally block.
TrackerAfterCycle == EmptyTracker

\* runDailyActivity from the point r its loops reached, lines 795-929, with g the
\* values of the flags as the caller left them.  r.at = "end" is the code after
\* the account loop: arming the next-cycle timer (875-878) and the finally block.
Continue(p, r, g) ==
  LET arm     == r.at = "end" /\ ~g.stop /\ g.ap <= 0
      handle1 == IF arm THEN "live" ELSE g.handle
      leaked1 == IF arm /\ g.handle = "live" THEN g.leaked + 1 ELSE g.leaked
  IN
  CASE r.at = "op" ->
        /\ \E amt \in RandomAmounts(r.kind) :
             proc' = [proc EXCEPT ![p] =
                        [IdleProc EXCEPT !.pc = FirstPc(r.kind), !.kind = r.kind, !.a = r.a,
                                         !.c = r.c, !.stopSeen = g.seen, !.amt = amt,
                                         !.done = Append(proc[p].done, << r.a, r.kind >>)]]
        /\ selectedWalletIndex' = IF r.sel # 0 THEN r.sel ELSE selectedWalletIndex
        /\ activeProcesses' = g.ap
        /\ activityRunning' = g.ar /\ isCycleRunning' = g.icr /\ shouldStop' = g.stop
        /\ menuItems' = g.menu
        /\ dailyActivityInterval' = g.handle /\ leakedTimers' = g.leaked
        /\ stoppedIdle' = g.si
        /\ UNCHANGED << finallyWatchers, nonceTracker, evicted, handed >>
    [] r.at = "sleep" ->
        \* sleep(): shouldStop is false here, so activeProcesses++ and suspend
        /\ proc' = [proc EXCEPT ![p] =
                     [IdleProc EXCEPT !.pc = "sleep", !.kind = r.kind, !.a = r.a, !.c = r.c,
                                      !.slp = r.slp, !.stopSeen = g.seen,
                                      !.done = proc[p].done]]
        /\ selectedWalletIndex' = IF r.sel # 0 THEN r.sel ELSE selectedWalletIndex
        /\ activeProcesses' = g.ap + 1
        /\ activityRunning' = g.ar /\ isCycleRunning' = g.icr /\ shouldStop' = g.stop
        /\ menuItems' = g.menu
        /\ dailyActivityInterval' = g.handle /\ leakedTimers' = g.leaked
        /\ stoppedIdle' = g.si
        /\ UNCHANGED << finallyWatchers, nonceTracker, evicted, handed >>
    [] OTHER ->
        /\ leaked1 <= MaxLeaked
        /\ proc' = [proc EXCEPT ![p] = IdleProc]
        /\ selectedWalletIndex' = IF r.sel # 0 THEN r.sel ELSE selectedWalletIndex
        /\ leakedTimers' = leaked1
        /\ IF g.stop
           THEN IF g.ap <= 0
                THEN /\ dailyActivityInterval' = "null"
                     /\ activityRunning' = FALSE /\ isCycleRunning' = FALSE
                     /\ shouldStop' = FALSE /\ activeProcesses' = 0
                     /\ menuItems' = MenuFor(FALSE)
                     /\ stoppedIdle' = TRUE
                     /\ UNCHANGED finallyWatchers
                ELSE \* setInterval at line 899; an interval beyond MaxWatchers
                     \* ticks together with one that is already pending
                     /\ finallyWatchers' = IF finallyWatchers < MaxWatchers
                                           THEN finallyWatchers + 1
                                           ELSE finallyWatchers
                     /\ dailyActivityInterval' = handle1
                     /\ activityRunning' = g.ar /\ isCycleRunning' = g.icr
                     /\ shouldStop' = g.stop /\ activeProcesses' = g.ap
                     /\ menuItems' = g.menu
                     /\ stoppedIdle' = g.si
           ELSE /\ dailyActivityInterval' = handle1
                /\ activityRunning' = FALSE
                /\ isCycleRunning' = (g.ap > 0 \/ handle1 # "null")
                /\ menuItems' = MenuFor(g.ap > 0 \/ handle1 # "null")
                /\ shouldStop' = g.stop /\ activeProcesses' = g.ap
                /\ stoppedIdle' = g.si
                /\ UNCHANGED finallyWatchers
        /\ nonceTracker' = TrackerAfterCycle
        /\ evicted' = {}
        /\ handed' = [a \in Accounts |-> {}]

\* The flags as they stand, for an action that changed none of them.
Flags(p) == [ar |-> activityRunning, icr |-> isCycleRunning, stop |-> shouldStop,
             ap |-> activeProcesses, menu |-> menuItems, seen |-> proc[p].stopSeen,
             handle |-> dailyActivityInterval, leaked |-> leakedTimers,
             si |-> stoppedIdle]

\* ------------------------------------------------------ chain operation steps
\* A passing read after which the nonce is reserved at once.
ReadThenReserve(k, pc) == "nonce"

\* Awaited reads that only gate the operation (balanceOf, allowance,
\* getOutstandingWithdrawRequests, withdrawRequests, coolDownPeriod, getBlock,
\* getFeeData): the step the operation takes when the read passes its check.
NextRead(k, pc) ==
  CASE pc = "balance"    -> IF k = "unwrap" THEN "fee" ELSE "allowance"
    [] pc = "ethBalance" -> "fee"
    [] pc = "allowance"  -> "fee"
    [] pc = "count"      -> "request"
    [] pc = "request"    -> "coolDown"
    [] pc = "coolDown"   -> "block"
    [] pc = "block"      -> "fee"
    [] pc = "fee"        -> "gas"
    [] OTHER             -> pc

\* The reads whose value decides the next step: balanceOf / getBalance against
\* the amount, allowance against the amount, and performClaim's four reads.
ValuePcs == {"balance", "ethBalance", "allowance", "count", "request", "coolDown", "block"}

\* What a balance or an allowance read may return.
TokenAmounts  == 0..MaxAmount
NativeAmounts == 0..(MaxAmount + MaxGasCost)
GasCosts      == 1..MaxGasCost

\* What the claim contract and the latest block may return.
RequestCounts == {0, 1}
Times         == 0..MaxTime
BlockTimes    == 0..(2 * MaxTime)

\* getFeeParams settles, for every operation but wrap, whose gas check follows
\* without a further await.  What performClaim read before is used no more.
ReadOk(p) ==
  /\ proc[p].pc = "fee" /\ proc[p].kind # "wrap"
  /\ proc' = [proc EXCEPT ![p] = [@ EXCEPT !.pc = NextRead(proc[p].kind, "fee"),
                                            !.createdAt = Absent, !.coolDown = Absent]]
  /\ UNCHANGED << isSubmitting, schedVars, nonceVars >>

\* A read rejects, or the gas check throws (insufficient ETH for gas).
\* getFeeParams never throws.
ReadFail(p) ==
  /\ proc[p].pc \in ValuePcs \cup {"gas", "nonce", "apNonce"}
  /\ Failed(p, "check")
  /\ UNCHANGED << schedVars, nonceVars >>

\* A balance test that also refuses a balance equal to the amount.
NotAbove(balance, amountWei) == balance <= amountWei

\* `wethBalance < amountWei` (420), `exethBalance < amountWei` (495),
\* `ethBalance < amountWei` (650), `wethBalance < amountWei` (722).
InsufficientBalance(balance, amountWei) == balance < amountWei

\* balanceOf (stake, unstake, unwrap) or getBalance (wrap) resolves with
\* balance and the operation compares it with its amount.  performWrap keeps
\* the value for its gas check.
ReadBalance(p, balance) ==
  /\ proc[p].pc \in {"balance", "ethBalance"}
  /\ IF InsufficientBalance(balance, proc[p].amt)
     THEN Failed(p, "balance")
     ELSE /\ proc' = [proc EXCEPT ![p] =
                       [@ EXCEPT !.pc = NextRead(proc[p].kind, proc[p].pc),
                                 !.bal = IF proc[p].kind = "wrap" THEN balance ELSE Absent]]
          /\ UNCHANGED isSubmitting
  /\ UNCHANGED << schedVars, nonceVars >>

\* getOutstandingWithdrawRequests resolves, lines 566-568.
ReadCount(p, count) ==
  /\ proc[p].pc = "count"
  /\ IF count = 0
     THEN Failed(p, "noRequest")
     ELSE Goto(p, NextRead(proc[p].kind, "count"))
  /\ UNCHANGED << schedVars, nonceVars >>

\* withdrawRequests(address, 0) resolves, lines 570-572.
ReadRequest(p, createdAt) ==
  /\ proc[p].pc = "request"
  /\ proc' = [proc EXCEPT ![p] = [@ EXCEPT !.pc = NextRead(proc[p].kind, "request"),
                                            !.createdAt = createdAt]]
  /\ UNCHANGED << isSubmitting, schedVars, nonceVars >>

\* coolDownPeriod() resolves, line 574.
ReadCoolDown(p, coolDown) ==
  /\ proc[p].pc = "coolDown"
  /\ proc' = [proc EXCEPT ![p] = [@ EXCEPT !.pc = NextRead(proc[p].kind, "coolDown"),
                                            !.coolDown = coolDown]]
  /\ UNCHANGED << isSubmitting, schedVars, nonceVars >>

\* A readiness test that also refuses the instant the cool-down ends.
NotReadyAtBoundary(createdAt, coolDown, now) == createdAt + coolDown >= now

\* `createdAt + coolDown > now`, line 580.
NotReady(createdAt, coolDown, now) == createdAt + coolDown > now

\* getBlock('latest') resolves with timestamp now, lines 576-582.
ReadBlock(p, now) ==
  /\ proc[p].pc = "block"
  /\ IF NotReady(proc[p].createdAt, proc[p].coolDown, now)
     THEN Failed(p, "notReady")
     ELSE Goto(p, NextRead(proc[p].kind, "block"))
  /\ UNCHANGED << schedVars, nonceVars >>

\* An approval that is requested whatever the allowance.
AlwaysApprove(allowance, amountWei) == TRUE

\* approveToken, line 375: `if (allowance >= amountWei) return;`
ApprovalNeeded(allowance, amountWei) == ~(allowance >= amountWei)

\* The value approveToken encodes in the approve call, line 380.
ApproveAmount(amountWei) == amountWei

\* approveToken's allowance call resolves, lines 371-381: return at once, or
\* build the approve transaction and await getFeeParams.
ReadAllowance(p, allowance) ==
  /\ proc[p].pc = "allowance"
  /\ proc' = [proc EXCEPT ![p] =
               IF ApprovalNeeded(allowance, proc[p].amt)
               THEN [@ EXCEPT !.pc = "apFee", !.approved = ApproveAmount(proc[p].amt)]
               ELSE [@ EXCEPT !.pc = NextRead(proc[p].kind, "allowance")]]
  /\ UNCHANGED << isSubmitting, schedVars, nonceVars >>

\* The await before getNextNonce settles (getFeeParams in approveToken and in
\* performWrap, getBalance elsewhere), the gas check passes and getNextNonce is
\* entered: lines 317-327.
AtNonceEntry(p) ==
  \/ proc[p].pc \in {"apFee", "gas"}
  \/ proc[p].pc = "fee" /\ proc[p].kind = "wrap"

\* performWrap's getFeeParams settles; its gas check decides before
\* getNextNonce is entered.
AtWrapGasCheck(p) == proc[p].pc = "fee" /\ proc[p].kind = "wrap"

\* A getNextNonce without the check of lines 317-320.
EntryNeverCancels(stop) == FALSE

EntryCancels(stop) == stop

EnterNonce(p) ==
  /\ AtNonceEntry(p) /\ ~AtWrapGasCheck(p)
  /\ ~EntryCancels(shouldStop)
  /\ proc' = [proc EXCEPT ![p] =
               IF proc[p].pc = "apFee"
               THEN [@ EXCEPT !.pc = "apNonce"]
               ELSE [@ EXCEPT !.pc = "nonce", !.gasOk = TRUE]]
  /\ UNCHANGED << isSubmitting, schedVars, nonceVars >>

\* getNextNonce throws "Process stopped" at entry; the text has no "nonce" in
\* it, so the caller's catch evicts nothing.
NonceCancelled(p) ==
  /\ AtNonceEntry(p) /\ ~AtWrapGasCheck(p)
  /\ EntryCancels(shouldStop)
  /\ Failed(p, "stopped")
  /\ UNCHANGED << schedVars, nonceVars >>

\* A gas check that looks at the amount alone.
CoversAmount(balance, amountWei, gasCost) == balance >= amountWei

\* performWrap, line 667: `ethBalance < amountWei + estimatedGasCost` throws.
CoversAmountAndGas(balance, amountWei, gasCost) == ~(balance < amountWei + gasCost)

\* performWrap's getFeeParams resolves with a fee that makes the gas cost
\* gasCost = gasFee * 100000 (lines 656-668): the check against the balance
\* read before, then getNextNonce's entry.
WrapGasCheck(p, gasCost) ==
  /\ AtWrapGasCheck(p)
  /\ IF ~CoversAmountAndGas(proc[p].bal, proc[p].amt, gasCost)
     THEN Failed(p, "gas")
     ELSE IF EntryCancels(shouldStop)
          THEN Failed(p, "stopped")
          ELSE /\ proc' = [proc EXCEPT ![p] = [@ EXCEPT !.pc = "nonce", !.bal = Absent,
                                                         !.gasOk = TRUE]]
               /\ UNCHANGED isSubmitting
  /\ UNCHANGED << schedVars, nonceVars >>

\* getTransactionCount resolves: lines 327-332, then the caller goes on to
\* sendTransaction with the value.
ReserveNonce(p) ==
  /\ proc[p].pc \in {"nonce", "apNonce"}
  /\ LET a   == proc[p].a
         key == NonceKey(a, proc[p].pc)
         n   == GetNextNonce(nonceTracker[key], pendingCount[a])
     IN /\ n <= MaxNonce
        /\ nonceTracker' = [nonceTracker EXCEPT ![key] = n]
        /\ proc' = [proc EXCEPT ![p] = [@ EXCEPT !.nonce = n, !.fresh = key \in evicted,
                       !.pc = IF @ = "apNonce" THEN "apSend" ELSE "send"]]
        /\ evicted' = evicted \ {key}
        /\ handed' = [handed EXCEPT ![a] = @ \cup {n}]
  /\ UNCHANGED << schedVars, pendingCount, isSubmitting >>

\* An operation that sends its transaction again once it was taken.
SendAgain(pc) == pc

\* What follows a broadcast: approveToken awaits tx.wait() (line 400), the
\* operation awaits the race of tx.wait() with its timer (line 469).
AfterBroadcast(pc) == IF pc = "apSend" THEN "apWait" ELSE "confirm"

\* sendTransaction resolves: the chain took the transaction.  The pending count
\* moves when the nonce is the next one; a higher nonce is queued.
Broadcast(p) ==
  /\ proc[p].pc \in {"send", "apSend"}
  /\ proc[p].nonce >= pendingCount[proc[p].a]
  /\ pendingCount' = [pendingCount EXCEPT ![proc[p].a] =
                        IF proc[p].nonce = @ THEN @ + 1 ELSE @]
  /\ proc' = [proc EXCEPT ![p] =
               IF proc[p].pc = "apSend"
               THEN [@ EXCEPT !.pc = AfterBroadcast(proc[p].pc), !.approvals = @ + 1]
               ELSE [@ EXCEPT !.pc = AfterBroadcast(proc[p].pc), !.sent = @ + 1]]
  /\ UNCHANGED << isSubmitting, schedVars, nonceTracker, evicted, handed >>

\* sendTransaction rejects.  err = "nonce": the chain refuses a nonce below its
\* pending count and the error text names the nonce; "other": any other error.
\* Lines 453-461 (main transaction) evict; approveToken has no catch.
BroadcastFails(p, err) ==
  /\ proc[p].pc \in {"send", "apSend"}
  /\ err = "nonce" => proc[p].nonce < pendingCount[proc[p].a]
  /\ LET key == NonceKey(proc[p].a, proc[p].pc)
     IN IF proc[p].pc = "send" /\ EvictsOn(err)
        THEN /\ nonceTracker' = [nonceTracker EXCEPT ![key] = Absent]
             /\ evicted' = evicted \cup {key}
             /\ handed' = [handed EXCEPT ![proc[p].a] = {}]
        ELSE UNCHANGED << nonceTracker, evicted, handed >>
  /\ Failed(p, err)
  /\ UNCHANGED << schedVars, pendingCount >>

\* A receipt test that refuses every receipt.
AlwaysReverted(status) == TRUE

\* A receipt test that accepts every receipt.
NeverReverted(status) == FALSE

\* `receipt.status === 0`, lines 401 and 470.
Reverted(status) == status = 0

\* tx.wait() resolves with a receipt: status 1, or status 0, for which
\* approveToken throws "Approve transaction reverted" and the operation
\* "Transaction reverted".
Receipt(p, status) ==
  /\ proc[p].pc \in {"confirm", "apWait"}
  /\ IF Reverted(status)
     THEN Failed(p, IF proc[p].pc = "apWait" THEN "approveReverted" ELSE "reverted")
     ELSE IF proc[p].pc = "apWait" THEN Goto(p, "fee") ELSE Succeeded(p)
  /\ UNCHANGED << schedVars, nonceVars >>

\* The 300 s timer of the main transaction's Promise.race fires first.
ConfirmTimeout(p) ==
  /\ proc[p].pc = "confirm"
  /\ Failed(p, "timeout")
  /\ UNCHANGED << schedVars, nonceVars >>

\* Another tool submits a transaction from the wallet.
ExternalTx(a) ==
  /\ a <= NumAccounts
  /\ pendingCount[a] < MaxNonce
  /\ pendingCount' = [pendingCount EXCEPT ![a] = @ + 1]
  /\ UNCHANGED << schedVars, nonceTracker, evicted, handed, proc, isSubmitting >>

\* ------------------------------------------------------------- cycle steps
\* `await updateWallets()` settles: in the cycle the repetition loop goes on
\* (lines 816-822 and alike), in the swap handler isSubmitting is cleared.
Refresh(p) ==
  /\ proc[p].pc = "refresh"
  /\ IF p = Swapper
     THEN /\ proc' = [proc EXCEPT ![p] = IdleProc]
          /\ isSubmitting' = FALSE
          /\ UNCHANGED << activityRunning, isCycleRunning, shouldStop, dailyActivityInterval,
                          leakedTimers, activeProcesses, selectedWalletIndex, menuItems,
                          finallyWatchers, stoppedIdle, nonceTracker, evicted, handed >>
     ELSE /\ Continue(p, RepNext(proc[p].kind, proc[p].a, proc[p].c, shouldStop), Flags(p))
          /\ UNCHANGED isSubmitting
  /\ UNCHANGED << accounts, slots, chosenWallet, feeData, feeParams, fineRange, amount, submitTimer, configFile, dailyActivityConfig, amountFormVisible, menuWatchers, pendingCount >>

\* sleep()'s finally, line 269, then the loops go on.
SleepReturns(p) ==
  LET g == [Flags(p) EXCEPT !.ap = Max(0, activeProcesses - 1)]
  IN  /\ Continue(p, AfterSleep(proc[p].slp, proc[p].kind, proc[p].a, proc[p].c, shouldStop), g)
      /\ UNCHANGED << accounts, slots, chosenWallet, feeData, feeParams, fineRange, amount, submitTimer, configFile, dailyActivityConfig, amountFormVisible, menuWatchers,
                      pendingCount, isSubmitting >>

\* The delay's setTimeout fires (lines 251-253).
SleepTimeout(p) ==
  /\ proc[p].pc = "sleep"
  /\ SleepReturns(p)

\* A poll that never ends the delay.
PollNeverSees(stop) == FALSE

\* `if (shouldStop)` in the delay's setInterval callback, line 255.
PollSees(stop) == stop

\* The delay's 100 ms poll sees shouldStop (lines 254-264).
SleepPoll(p) ==
  /\ proc[p].pc = "sleep"
  /\ PollSees(shouldStop)
  /\ SleepReturns(p)

\* runDailyActivity entered (lines 782-795) in a free execution slot.
RunDailyActivity(p, handle, leaked, si) ==
  /\ p <= slots
  /\ proc[p].pc = "idle"
  /\ \A q \in Bodies : q < p => proc[q].pc # "idle"
  /\ Continue(p, AcctHead(1, FALSE),
              [ar |-> TRUE, icr |-> TRUE, stop |-> FALSE, ap |-> Max(0, activeProcesses),
               menu |-> MenuFor(TRUE), seen |-> FALSE, handle |-> handle,
               leaked |-> leaked, si |-> si])

\* ------------------------------------------------------- interactive surface
MenuVisible == ~amountFormVisible

\* menuBox select "Start Auto Daily Activity", lines 1414-1420.
Start ==
  /\ MenuVisible
  /\ menuItems = "Start"
  /\ ~isCycleRunning
  /\ \E p \in Bodies : RunDailyActivity(p, dailyActivityInterval, leakedTimers, FALSE)
  /\ UNCHANGED << accounts, slots, chosenWallet, feeData, feeParams, fineRange, amount, submitTimer, configFile, dailyActivityConfig, amountFormVisible, menuWatchers,
                  pendingCount, isSubmitting >>

\* Every way the code reports the stop as complete writes these flags.
ReportIdle ==
  /\ activityRunning' = FALSE
  /\ isCycleRunning' = FALSE
  /\ shouldStop' = FALSE
  /\ menuItems' = MenuFor(FALSE)
  /\ stoppedIdle' = TRUE

\* A counter test that the counter, which is never negative, cannot pass.
BelowZero == activeProcesses < 0

\* Whether the stop handlers take the branch that reports idle at once.
NothingInFlight == activeProcesses <= 0

\* menuBox select "Stop Activity", lines 1421-1458.
Stop ==
  /\ MenuVisible
  /\ menuItems = "Stop"
  /\ dailyActivityInterval' = "null"
  /\ proc' = [p \in Procs |-> IF p \in Bodies /\ proc[p].pc # "idle"
                              THEN [proc[p] EXCEPT !.stopSeen = TRUE] ELSE proc[p]]
  /\ IF NothingInFlight
     THEN /\ ReportIdle
          /\ UNCHANGED menuWatchers
     ELSE /\ menuWatchers < MaxWatchers
          /\ menuWatchers' = menuWatchers + 1
          /\ shouldStop' = TRUE
          /\ UNCHANGED << activityRunning, isCycleRunning, menuItems, stoppedIdle >>
  /\ UNCHANGED << accounts, slots, chosenWallet, feeData, feeParams, fineRange, amount, submitTimer, configFile, dailyActivityConfig, leakedTimers, activeProcesses,
                  selectedWalletIndex, amountFormVisible, finallyWatchers, isSubmitting,
                  nonceVars >>

\* The Stop handler's stopCheckInterval finds nothing in flight, lines 1440-1451.
MenuWatcherTick ==
  /\ menuWatchers > 0
  /\ NothingInFlight
  /\ menuWatchers' = menuWatchers - 1
  /\ ReportIdle
  /\ activeProcesses' = 0
  /\ UNCHANGED << accounts, slots, chosenWallet, feeData, feeParams, fineRange, amount, submitTimer, configFile, dailyActivityConfig, dailyActivityInterval, leakedTimers,
                  selectedWalletIndex, amountFormVisible, finallyWatchers, isSubmitting,
                  proc, nonceVars >>

\* The finally block's stopCheckInterval finds nothing in flight, lines 899-915.
FinallyWatcherTick ==
  /\ finallyWatchers > 0
  /\ NothingInFlight
  /\ finallyWatchers' = finallyWatchers - 1
  /\ dailyActivityInterval' = "null"
  /\ ReportIdle
  /\ activeProcesses' = 0
  /\ UNCHANGED << accounts, slots, chosenWallet, feeData, feeParams, fineRange, amount, submitTimer, configFile, dailyActivityConfig, leakedTimers, selectedWalletIndex,
                  amountFormVisible, menuWatchers, isSubmitting, proc, nonceVars >>

\* A next-cycle timer fires and calls runDailyActivity (line 877): the timer the
\* handle refers to, or one the handle lost.  The handle is not cleared.
TimerFire ==
  /\ \/ /\ dailyActivityInterval = "live"
        /\ \E p \in Bodies : RunDailyActivity(p, "fired", leakedTimers, stoppedIdle)
     \/ /\ leakedTimers > 0
        /\ \E p \in Bodies : RunDailyActivity(p, dailyActivityInterval, leakedTimers - 1, stoppedIdle)
  /\ UNCHANGED << accounts, slots, chosenWallet, feeData, feeParams, fineRange, amount, submitTimer, configFile, dailyActivityConfig, amountFormVisible, menuWatchers,
                  pendingCount, isSubmitting >>

\* walletSelectionList select, lines 1651-1663.
WalletSelect(i) ==
  /\ ~amountFormVisible
  /\ i <= NumAccounts
  /\ selectedWalletIndex' = i
  /\ amountFormVisible' = TRUE
  /\ chosenWallet' = i
  /\ UNCHANGED << accounts, slots, feeData, feeParams, fineRange, amount, submitTimer, configFile, dailyActivityConfig, activityRunning, isCycleRunning, shouldStop,
                  dailyActivityInterval, leakedTimers, activeProcesses, menuItems,
                  menuWatchers, finallyWatchers, stoppedIdle, proc, isSubmitting, nonceVars >>

\* amountForm escape, lines 1735-1745.
AmountEscape ==
  /\ amountFormVisible
  /\ amountFormVisible' = FALSE
  /\ chosenWallet' = 0
  /\ UNCHANGED << accounts, slots, feeData, feeParams, fineRange, amount, submitTimer, configFile, dailyActivityConfig, activityRunning, isCycleRunning, shouldStop,
                  dailyActivityInterval, leakedTimers, activeProcesses, selectedWalletIndex,
                  menuItems, menuWatchers, finallyWatchers, stoppedIdle, proc, isSubmitting,
                  nonceVars >>

\* amountForm submit with a valid amount, lines 1666-1713.  The wallet is
\* built outside the try (line 1703): an entry of pk.txt that is no private key
\* makes the handler throw with isSubmitting left set.  Otherwise performWrap
\* or performUnwrap runs for accounts[selectedWalletIndex], up to its first
\* await.
AmountSubmit(k, amt) ==
  /\ amountFormVisible
  /\ ~isSubmitting
  /\ isSubmitting' = TRUE
  /\ amountFormVisible' = FALSE
  /\ proc' = IF ValidKey(selectedWalletIndex)
             THEN [proc EXCEPT ![Swapper] =
                     [IdleProc EXCEPT !.pc = FirstPc(k), !.kind = k,
                                      !.a = selectedWalletIndex, !.amt = amt]]
             ELSE proc
  /\ chosenWallet' = 0
  /\ UNCHANGED << accounts, slots, feeData, feeParams, fineRange, amount, submitTimer, configFile, dailyActivityConfig, activityRunning, isCycleRunning, shouldStop,
                  dailyActivityInterval, leakedTimers, activeProcesses, selectedWalletIndex,
                  menuItems, menuWatchers, finallyWatchers, stoppedIdle, nonceVars >>

\* ------------------------------------------------------------ random amounts
\* Here amounts are in units of 0.00001 token, one decimal finer than
\* toFixed(4) keeps; a unit x stands for the reals of [x, x + 1).
\* The default range 0.01 .. 0.02 of lines 61-62.
DefaultFineRange == [min |-> 1000, max |-> 2000]

\* The ranges configForm submit accepts (positive, min <= max), lines 1771-1838.
FineRanges == {r \in [min : 1..MaxFine, max : 1..MaxFine] : r.min <= r.max}

\* `Math.random() * (max - min) + min` with Math.random() in [0, 1).
RandomValues(min, max) ==
  IF min < max THEN min..(max - 1) ELSE max..min

\* A formatting that cuts the digits after the fourth.
Truncated(x) == (x \div 10) * 10

\* `.toFixed(4)`: the nearest multiple of 0.0001.  (A value exactly half-way
\* is rounded by its binary representation; it is taken upwards here.)
ToFixed4(x) == ((x + 5) \div 10) * 10

\* Lines 809 and 832: the amount of one stake or unstake is drawn.
DrawAmount ==
  /\ amount = Absent
  /\ \E x \in RandomValues(fineRange.min, fineRange.max) : amount' = ToFixed4(x)
  /\ UNCHANGED << accounts, slots, chosenWallet, feeData, feeParams, fineRange, submitTimer, configFile,
                  dailyActivityConfig, activityRunning, isCycleRunning, shouldStop,
                  dailyActivityInterval, leakedTimers, activeProcesses, selectedWalletIndex,
                  isSubmitting, amountFormVisible, menuItems, menuWatchers, finallyWatchers,
                  stoppedIdle, proc, nonceVars >>

\* ------------------------------------------------------------ fee parameters
\* Fees are in gwei.  OneGwei is `ethers.parseUnits("1", "gwei")`.
OneGwei == 1

\* What a field of the FeeData answer may hold: null (Absent) or a bigint.
FeeValues == {Absent} \cup (0..MaxFee)

\* provider.getFeeData() rejected.
QueryError == [error |-> TRUE, gasPrice |-> Absent, maxFeePerGas |-> Absent,
               maxPriorityFeePerGas |-> Absent]

\* The answers of provider.getFeeData(), and its rejection.
FeeDatas ==
  [error : {FALSE}, gasPrice : FeeValues, maxFeePerGas : FeeValues,
   maxPriorityFeePerGas : FeeValues] \cup {QueryError}

\* No value returned yet; a field the returned object lacks is Absent.
NoParams == [type |-> Absent, gasPrice |-> Absent, maxFeePerGas |-> Absent,
             maxPriorityFeePerGas |-> Absent]

\* The legacy parameters of lines 351-354 and 359-362.
Legacy(gasPrice) == [NoParams EXCEPT !.type = 0, !.gasPrice = gasPrice]

\* A test that takes every bigint, 0n included, for a value.
NotNull(v) == v # Absent

\* The truthiness `&&` and `||` test in lines 343 and 351: null, undefined and
\* 0n are falsy.
Truthy(v) == v # Absent /\ v # 0

\* getFeeParams, lines 339-363.
GetFeeParams(fd) ==
  IF fd.error
  THEN Legacy(OneGwei)
  ELSE IF Truthy(fd.maxFeePerGas) /\ Truthy(fd.maxPriorityFeePerGas)
       THEN [NoParams EXCEPT !.type = 2, !.maxFeePerGas = fd.maxFeePerGas,
                             !.maxPriorityFeePerGas = fd.maxPriorityFeePerGas]
       ELSE Legacy(IF Truthy(fd.gasPrice) THEN fd.gasPrice ELSE OneGwei)

\* A getFeeParams call returns: provider.getFeeData() has settled with feeData.
GetFeeParamsReturns ==
  /\ feeParams = NoParams
  /\ feeParams' = GetFeeParams(feeData)
  /\ UNCHANGED << accounts, slots, chosenWallet, feeData, fineRange, amount, submitTimer, configFile,
                  dailyActivityConfig, activityRunning, isCycleRunning, shouldStop, dailyActivityInterval,
                  leakedTimers, activeProcesses, selectedWalletIndex, isSubmitting,
                  amountFormVisible, menuItems, menuWatchers, finallyWatchers, stoppedIdle,
                  proc, nonceVars >>

\* ------------------------------------------------------------ specification
\* The state after initialize(): the wallets of pk.txt and the configuration of
\* config.json are loaded, nothing runs.  selectedWalletIndex is the first wallet.
\* Amounts are in units of 0.01 token.
DefaultConfig == [stake |-> 1, unstake |-> 1, claim |-> 1,
                  wethStakeRange |-> [min |-> 1, max |-> 2],
                  exethUnstakeRange |-> [min |-> 1, max |-> 2],
                  loopHours |-> 24]

\* A document with the given repetition counts and the default ranges.
ConfigWith(s, u, c) == [DefaultConfig EXCEPT !.stake = s, !.unstake = u, !.claim = c]

\* `Number(v) || d`, lines 82-89: NaN (field missing or not a number) and 0
\* are replaced by the default.
OrDefault(v, d) == IF v # NaN /\ v # 0 THEN v ELSE d

\* loadConfig, lines 77-96.
LoadConfig(file) ==
  [stake   |-> OrDefault(file.stake, 1),
   unstake |-> OrDefault(file.unstake, 1),
   claim   |-> OrDefault(file.claim, 1),
   wethStakeRange    |-> [min |-> OrDefault(file.wethStakeRange.min, 1),
                          max |-> OrDefault(file.wethStakeRange.max, 2)],
   exethUnstakeRange |-> [min |-> OrDefault(file.exethUnstakeRange.min, 1),
                          max |-> OrDefault(file.exethUnstakeRange.max, 2)],
   loopHours |-> OrDefault(file.loopHours, 24)]

RepChoices == {ConfigWith(2, 1, 1), DefaultConfig}

InitState(keyLists, files, nSlots, feeDatas, fineRanges) ==
  /\ accounts \in keyLists
  /\ feeData \in feeDatas
  /\ feeParams = NoParams
  /\ fineRange \in fineRanges
  /\ amount = Absent
  /\ chosenWallet = 0
  /\ slots = nSlots
  /\ configFile \in files
  /\ submitTimer = FALSE
  /\ dailyActivityConfig = LoadConfig(configFile)
  /\ activityRunning = FALSE /\ isCycleRunning = FALSE /\ shouldStop = FALSE
  /\ dailyActivityInterval = "null" /\ leakedTimers = 0
  /\ activeProcesses = 0
  /\ nonceTracker = EmptyTracker
  /\ selectedWalletIndex = 1
  /\ isSubmitting = FALSE /\ amountFormVisible = FALSE
  /\ menuItems = "Start"
  /\ menuWatchers = 0 /\ finallyWatchers = 0
  /\ proc = [p \in Procs |-> IdleProc]
  /\ pendingCount \in [Accounts -> {0}]
  /\ evicted = {} /\ handed = [a \in Accounts |-> {}]
  /\ stoppedIdle = FALSE

\* The program with no fee query under observation.
InitWith(keyLists, files, nSlots) ==
  InitState(keyLists, files, nSlots, {QueryError}, {DefaultFineRange})

Init == InitWith({ValidKeys(MaxAccounts)}, RepChoices, MaxCycles)

\* ------------------------------------------------------- run configuration
RepTypes   == {"stake", "unstake", "claim"}
RangeTypes == {"wethStakeRange", "exethUnstakeRange"}

\* What parseInt / parseFloat make of the text in a form field.
FormValues == {NaN, 0} \cup (1..MaxAmount)

\* The tests of configForm submit that end in `return`, lines 1771-1838.
Rejected(type, value, maxValue) ==
  \/ type \in RangeTypes /\ (maxValue = NaN \/ maxValue <= 0)
  \/ value = NaN \/ value <= 0
  \/ type = "loopHours" /\ value < 1
  \/ type \in RangeTypes /\ value > maxValue

\* The run configuration configForm submit leaves behind, lines 1806-1845.
EditConfig(config, type, value, maxValue) ==
  IF Rejected(type, value, maxValue) THEN config
  ELSE IF type \in RangeTypes
       THEN [config EXCEPT ![type] = [min |-> value, max |-> maxValue]]
       ELSE [config EXCEPT ![type] = value]

\* A save that never reaches the file.
NotSaved(file, config, written) == file

\* saveConfig, lines 98-105: the whole configuration replaces the document
\* unless writeFileSync throws, which is logged and nothing more.
SaveConfig(file, config, written) == IF written THEN config ELSE file

\* configForm submit, lines 1759-1860.  A rejected edit clears isSubmitting
\* and returns; an accepted one edits, saves and arms the 100 ms timer that
\* clears isSubmitting.
ConfigSubmit(type, value, maxValue, written) ==
  /\ MenuVisible
  /\ ~isSubmitting
  /\ dailyActivityConfig' = EditConfig(dailyActivityConfig, type, value, maxValue)
  /\ IF Rejected(type, value, maxValue)
     THEN UNCHANGED << configFile, isSubmitting, submitTimer >>
     ELSE /\ configFile' = SaveConfig(configFile, dailyActivityConfig', written)
          /\ isSubmitting' = TRUE
          /\ submitTimer' = TRUE
  /\ UNCHANGED << accounts, slots, chosenWallet, feeData, feeParams, fineRange, amount, activityRunning, isCycleRunning, shouldStop,
                  dailyActivityInterval, leakedTimers, activeProcesses, selectedWalletIndex,
                  amountFormVisible, menuItems, menuWatchers, finallyWatchers, stoppedIdle,
                  proc, nonceVars >>

\* The timer of lines 1851-1859 fires.
ConfigTimerFires ==
  /\ submitTimer
  /\ submitTimer' = FALSE
  /\ isSubmitting' = FALSE
  /\ UNCHANGED << accounts, slots, chosenWallet, feeData, feeParams, fineRange, amount, configFile, dailyActivityConfig, activityRunning,
                  isCycleRunning, shouldStop, dailyActivityInterval, leakedTimers,
                  activeProcesses, selectedWalletIndex, amountFormVisible, menuItems,
                  menuWatchers, finallyWatchers, stoppedIdle, proc, nonceVars >>

\* menuBox select "Exit" (process.exit, line 1491) and a new start of the
\* program: initialize() loads config.json and pk.txt again, lines 1930-1943.
Restart ==
  /\ MenuVisible
  /\ dailyActivityConfig' = LoadConfig(configFile)
  /\ submitTimer' = FALSE
  /\ activityRunning' = FALSE /\ isCycleRunning' = FALSE /\ shouldStop' = FALSE
  /\ dailyActivityInterval' = "null" /\ leakedTimers' = 0
  /\ activeProcesses' = 0
  /\ nonceTracker' = EmptyTracker
  /\ selectedWalletIndex' = 1
  /\ isSubmitting' = FALSE /\ amountFormVisible' = FALSE
  /\ menuItems' = "Start"
  /\ menuWatchers' = 0 /\ finallyWatchers' = 0
  /\ proc' = [p \in Procs |-> IdleProc]
  /\ evicted' = {} /\ handed' = [a \in Accounts |-> {}]
  /\ stoppedIdle' = FALSE
  /\ UNCHANGED << accounts, slots, chosenWallet, feeData, feeParams, fineRange, amount, configFile, pendingCount >>

\* config.json as found at the first start: written by an earlier run, edited
\* by hand, or lacking fields.
FileDocs ==
  [stake : {NaN, -1, 0, 2}, unstake : {1}, claim : {1},
   wethStakeRange : [min : 1..MaxAmount, max : 1..MaxAmount],
   exethUnstakeRange : [min : {1}, max : {2}],
   loopHours : {0, 24}]

\* The configuration is edited and the program restarted; nothing else runs.
NextConfig ==
  \/ \E type \in RepTypes \cup {"loopHours"} : \E value \in FormValues :
       \E written \in BOOLEAN : ConfigSubmit(type, value, NaN, written)
  \/ \E type \in RangeTypes : \E value, maxValue \in FormValues :
       \E written \in BOOLEAN : ConfigSubmit(type, value, maxValue, written)
  \/ ConfigTimerFires
  \/ Restart

\* One field of each kind the form edits: the handler treats the three
\* repetition counts alike and the two ranges alike.
EditedTypes == {"stake", "wethStakeRange", "loopHours"}

\* NextConfig with the edits confined to EditedTypes.
NextEdit ==
  \/ \E type \in EditedTypes : \E value, maxValue \in FormValues :
       \E written \in BOOLEAN :
         /\ type \notin RangeTypes => maxValue = NaN
         /\ ConfigSubmit(type, value, maxValue, written)
  \/ ConfigTimerFires
  \/ Restart

SpecConfig == InitWith({ValidKeys(1)}, FileDocs, 1) /\ [][NextEdit]_vars

\* One step of a chain operation: an awaited RPC call settles.
ChainStep(p) ==
  \/ ReadOk(p)
  \/ ReadFail(p)
  \/ \E balance \in TokenAmounts : ReadBalance(p, balance)
  \/ \E allowance \in TokenAmounts : ReadAllowance(p, allowance)
  \/ \E count \in RequestCounts : ReadCount(p, count)
  \/ \E createdAt \in Times : ReadRequest(p, createdAt)
  \/ \E coolDown \in Times : ReadCoolDown(p, coolDown)
  \/ \E now \in BlockTimes : ReadBlock(p, now)
  \/ EnterNonce(p)
  \/ ReserveNonce(p)
  \/ Broadcast(p)
  \/ \E err \in {"nonce", "other"} : BroadcastFails(p, err)
  \/ \E status \in {0, 1} : Receipt(p, status)
  \/ ConfirmTimeout(p)

\* The user starts the cycle and leaves it alone: no stop, no swap.
NextNonce ==
  \/ \E p \in Bodies : ChainStep(p)
  \/ \E p \in Bodies : Refresh(p)
  \/ \E p \in Bodies : SleepTimeout(p)
  \/ \E a \in Accounts : ExternalTx(a)
  \/ Start
  \/ TimerFire

SpecNonce == InitWith({ValidKeys(1)}, {ConfigWith(2, 1, 1)}, 1) /\ [][NextNonce]_vars

\* The chain answers every read and every broadcast, and every timer the code
\* arms fires; whether a receipt ever arrives is left to the chain.
FairNonce ==
  \A p \in Bodies : /\ WF_vars(ReadOk(p))
                    /\ WF_vars(EnterNonce(p))
                    /\ WF_vars(ReserveNonce(p))
                    /\ WF_vars(Broadcast(p) \/ BroadcastFails(p, "nonce"))
                    /\ WF_vars(ConfirmTimeout(p))
                    /\ WF_vars(Refresh(p))
                    /\ WF_vars(SleepTimeout(p))

SpecNonceFair == SpecNonce /\ FairNonce

\* pk.txt with MaxAccounts lines, each a private key or not.
KeyLists == [1..MaxAccounts -> [privateKey : KeyKinds]]

\* config.json as the program wrote it (counts >= 1) or as edited by hand.
ConfigFiles == {DefaultConfig, ConfigWith(2, 1, 1), ConfigWith(1, 0, 0), ConfigWith(1, -1, 1)}

\* Cycles that are never stopped, over any pk.txt and config.json.
NextRun ==
  \/ \E p \in Bodies : ChainStep(p)
  \/ \E p \in Bodies : Refresh(p)
  \/ \E p \in Bodies : SleepTimeout(p)
  \/ Start
  \/ TimerFire

SpecRun == InitWith(KeyLists, ConfigFiles, 1) /\ [][NextRun]_vars

\* The first check of an operation refuses it: the wallet holds less WETH or
\* eXETH than the amount, or has no outstanding withdraw request.
RefusedAtFirstCheck(p) ==
  /\ proc[p].pc \in {"balance", "count"}
  /\ ReadFail(p)

\* The cycle, its start and stop, and the timers, over wallets whose token
\* balances refuse every stake, unstake and claim at the first check.
NextCycle ==
  \/ \E p \in Bodies : RefusedAtFirstCheck(p)
  \/ \E p \in Bodies : Refresh(p)
  \/ \E p \in Bodies : SleepTimeout(p)
  \/ \E p \in Bodies : SleepPoll(p)
  \/ Start
  \/ Stop
  \/ MenuWatcherTick
  \/ FinallyWatcherTick
  \/ TimerFire

SpecCycle == InitWith({ValidKeys(2)}, {DefaultConfig}, MaxCycles) /\ [][NextCycle]_vars

\* Chain responses arrive and timeouts fire: every awaited step of a cycle is
\* taken once it stays possible.  The two stop-completion intervals tick every
\* second for as long as they exist, and the counter is at or below zero
\* whenever no delay is pending (for hours between two cycles), so a tick that
\* is possible again and again is taken.
FairCycle ==
  /\ \A p \in Bodies : /\ WF_vars(RefusedAtFirstCheck(p))
                       /\ WF_vars(Refresh(p))
                       /\ WF_vars(SleepTimeout(p))
                       /\ WF_vars(SleepPoll(p))
  /\ WF_vars(TimerFire)
  /\ SF_vars(MenuWatcherTick)
  /\ SF_vars(FinallyWatcherTick)

SpecCycleFair == SpecCycle /\ FairCycle

\* One-shot wrap and unwrap next to a cycle whose operations are refused at the
\* first check: the swap handler runs its operation through every step.
NextSwap ==
  \/ \E p \in Bodies : RefusedAtFirstCheck(p)
  \/ ReadOk(Swapper)
  \/ ReadFail(Swapper)
  \/ \E balance \in NativeAmounts : ReadBalance(Swapper, balance)
  \/ \E gasCost \in GasCosts : WrapGasCheck(Swapper, gasCost)
  \/ EnterNonce(Swapper)
  \/ NonceCancelled(Swapper)
  \/ ReserveNonce(Swapper)
  \/ Broadcast(Swapper)
  \/ \E err \in {"nonce", "other"} : BroadcastFails(Swapper, err)
  \/ \E status \in {0, 1} : Receipt(Swapper, status)
  \/ ConfirmTimeout(Swapper)
  \/ \E p \in Procs : Refresh(p)
  \/ \E p \in Bodies : SleepTimeout(p)
  \/ \E p \in Bodies : SleepPoll(p)
  \/ \E a \in Accounts : ExternalTx(a)
  \/ Start
  \/ Stop
  \/ MenuWatcherTick
  \/ TimerFire
  \/ \E i \in Accounts : WalletSelect(i)
  \/ AmountEscape
  \/ \E k \in SwapKinds : \E amt \in 1..MaxAmount : AmountSubmit(k, amt)

SpecSwap == InitWith({ValidKeys(1)}, {DefaultConfig}, 1) /\ [][NextSwap]_vars

\* Two wallets and no cycle: the Auto Swap menu alone, a wrap or an unwrap
\* through every step.  shouldStop is set only while a cycle runs, so no nonce
\* reservation is cancelled here.
NextSwapAll ==
  \/ ReadOk(Swapper)
  \/ ReadFail(Swapper)
  \/ \E balance \in NativeAmounts : ReadBalance(Swapper, balance)
  \/ \E gasCost \in GasCosts : WrapGasCheck(Swapper, gasCost)
  \/ EnterNonce(Swapper)
  \/ ReserveNonce(Swapper)
  \/ Broadcast(Swapper)
  \/ \E err \in {"nonce", "other"} : BroadcastFails(Swapper, err)
  \/ \E status \in {0, 1} : Receipt(Swapper, status)
  \/ ConfirmTimeout(Swapper)
  \/ Refresh(Swapper)
  \/ \E a \in Accounts : ExternalTx(a)
  \/ \E i \in Accounts : WalletSelect(i)
  \/ AmountEscape
  \/ \E k \in SwapKinds : \E amt \in 1..MaxAmount : AmountSubmit(k, amt)

SpecSwapAll == InitWith({ValidKeys(2)}, {DefaultConfig}, 1) /\ [][NextSwapAll]_vars

\* Two wallets: a cycle whose operations are refused at the first check walks
\* from wallet to wallet while the user picks a wallet for a swap and submits
\* an amount; the swap ends at its first read.
NextSelect ==
  \/ \E p \in Bodies : RefusedAtFirstCheck(p)
  \/ \E p \in Bodies : Refresh(p)
  \/ \E p \in Bodies : SleepTimeout(p)
  \/ Start
  \/ ReadFail(Swapper)
  \/ \E i \in Accounts : WalletSelect(i)
  \/ AmountEscape
  \/ \E k \in SwapKinds : \E amt \in 1..MaxAmount : AmountSubmit(k, amt)

SpecSelect == InitWith({ValidKeys(2)}, {DefaultConfig}, 1) /\ [][NextSelect]_vars

\* One wallet, never stopped: the cycle's operations and the swap handler's
\* wrap and unwrap, each through every step.
NextOps ==
  \/ \E p \in Bodies : ChainStep(p)
  \/ ReadOk(Swapper)
  \/ ReadFail(Swapper)
  \/ \E balance \in NativeAmounts : ReadBalance(Swapper, balance)
  \/ \E gasCost \in GasCosts : WrapGasCheck(Swapper, gasCost)
  \/ EnterNonce(Swapper)
  \/ ReserveNonce(Swapper)
  \/ Broadcast(Swapper)
  \/ \E err \in {"nonce", "other"} : BroadcastFails(Swapper, err)
  \/ \E status \in {0, 1} : Receipt(Swapper, status)
  \/ ConfirmTimeout(Swapper)
  \/ \E p \in Procs : Refresh(p)
  \/ \E p \in Bodies : SleepTimeout(p)
  \/ Start
  \/ TimerFire
  \/ \E i \in Accounts : WalletSelect(i)
  \/ \E k \in SwapKinds : \E amt \in 1..MaxAmount : AmountSubmit(k, amt)

SpecOps == InitWith({ValidKeys(1)}, {DefaultConfig}, 1) /\ [][NextOps]_vars

\* getFeeParams on every answer of the fee query.
NextFee == GetFeeParamsReturns

SpecFee ==
  InitState({ValidKeys(1)}, {DefaultConfig}, 1, FeeDatas, {DefaultFineRange})
    /\ [][NextFee]_vars

\* The amount of a stake or an unstake, for every range the form accepts.
NextAmount == DrawAmount

SpecAmount ==
  InitState({ValidKeys(1)}, {DefaultConfig}, 1, {QueryError}, FineRanges)
    /\ [][NextAmount]_vars

\* Everything the program and its environment can do.
Next ==
  \/ \E p \in Procs : ChainStep(p)
  \/ \E balance \in NativeAmounts : ReadBalance(Swapper, balance)
  \/ \E gasCost \in GasCosts : WrapGasCheck(Swapper, gasCost)
  \/ \E p \in Procs : NonceCancelled(p)
  \/ \E p \in Procs : Refresh(p)
  \/ \E p \in Bodies : SleepTimeout(p)
  \/ \E p \in Bodies : SleepPoll(p)
  \/ \E a \in Accounts : ExternalTx(a)
  \/ Start
  \/ Stop
  \/ MenuWatcherTick
  \/ FinallyWatcherTick
  \/ TimerFire
  \/ \E i \in Accounts : WalletSelect(i)
  \/ AmountEscape
  \/ \E k \in SwapKinds : \E amt \in 1..MaxAmount : AmountSubmit(k, amt)
  \/ NextConfig

Spec == Init /\ [][Next]_vars

\* ------------------------------------------------------------------ claims
\* Execution p's getNextNonce returns in this step.
Reserves(p) ==
  /\ proc[p].pc \in {"nonce", "apNonce"}
  /\ proc'[p].pc \in {"send", "apSend"}

\* C1: two getNextNonce calls in sequence on one key, with no eviction and no
\* reset between them: the second value is greater than the first, and is the
\* first plus 1 when the pending count is at most the first plus 1 (nonce 0
\* included).  The key's entry is the first value exactly when no eviction and
\* no reset came between.
C1_SequentialReservesIncrease ==
  [][\A p \in Procs : Reserves(p) =>
       LET first   == nonceTracker[NonceKey(proc[p].a, proc[p].pc)]
           pending == pendingCount[proc[p].a]
           second  == proc'[p].nonce
       IN  first # Absent =>
             /\ second > first
             /\ pending <= first + 1 => second = first + 1]_vars

\* C2: getNextNonce returns max(pending, lastReserved + 1) when the key has an
\* entry and pending when it has none, and stores what it returns.
C2_ReturnsMaxAndStores ==
  [][\A p \in Procs : Reserves(p) =>
       LET key     == NonceKey(proc[p].a, proc[p].pc)
           pending == pendingCount[proc[p].a]
       IN  /\ proc'[p].nonce = IF nonceTracker[key] # Absent
                               THEN Max(pending, nonceTracker[key] + 1) ELSE pending
           /\ nonceTracker'[key] = proc'[p].nonce]_vars

\* C3: every value getNextNonce returns is at least the pending count read in
\* that call, and is the pending count exactly when the key has no entry (the
\* first reserve after an eviction or a reset).
C3_NeverBelowPending ==
  [][\A p \in Procs : Reserves(p) =>
       LET key     == NonceKey(proc[p].a, proc[p].pc)
           pending == pendingCount[proc[p].a]
       IN  /\ proc'[p].nonce >= pending
           /\ nonceTracker[key] = Absent => proc'[p].nonce = pending]_vars

\* C3 witness: a main transaction holds the nonce of the first reserve after an
\* eviction of its key, and the chain had moved on meanwhile.
C3_Witness ==
  \E p \in Procs : /\ proc[p].pc = "send"
                   /\ proc[p].fresh
                   /\ proc[p].nonce = pendingCount[proc[p].a]
                   /\ proc[p].nonce > 1

\* C4: no nonce is handed out twice for one wallet unless the entry was evicted
\* or the tracker was reset between the two reservations.
C4_NoNonceHandedTwice ==
  [][\A p \in Procs : Reserves(p) => proc'[p].nonce \notin handed[proc[p].a]]_vars

\* C5: a broadcast (main or approval) that fails with a nonce conflict deletes
\* the entry its nonce was reserved under and the error reaches the caller; a
\* broadcast that fails otherwise leaves the entry in place.
C5_NonceConflictEvicts ==
  [][\A p \in Procs :
       (proc[p].pc \in {"send", "apSend"} /\ proc'[p].err \in {"nonce", "other"}) =>
          LET key == NonceKey(proc[p].a, proc[p].pc)
          IN  /\ proc'[p].pc \in {"refresh", "idle"}
              /\ proc'[p].err = "nonce" => nonceTracker'[key] = Absent
              /\ proc'[p].err = "other" => nonceTracker'[key] = nonceTracker[key]]_vars

\* Execution p leaves the await it is suspended at in this step.
Moves(p) == proc'[p].pc # proc[p].pc

\* An operation attempt of execution p starts in this step.
AttemptStarts(p) ==
  /\ proc[p].pc \notin OpPcs
  /\ proc'[p].pc \in OpPcs

\* C6 as claimed: a stop flag that is set at getNextNonce's entry or while its
\* pending-count query is awaited makes the call fail: nothing is recorded and
\* the caller does not go on to broadcast.
C6_StopBeforeQueryCompletesCancels ==
  [][\A p \in Procs :
       (shouldStop /\ Moves(p) /\ (AtNonceEntry(p) \/ proc[p].pc \in {"nonce", "apNonce"})) =>
          /\ proc'[p].pc \in {"refresh", "idle"}
          /\ nonceTracker' = nonceTracker]_vars

\* C6 amended: a stop flag that is set when getNextNonce is entered makes the
\* call fail with the cancellation error (unless the check before it already
\* failed the operation): nothing is recorded, nothing is broadcast.
C6_StopAtEntryCancels ==
  [][\A p \in Procs :
       (shouldStop /\ Moves(p) /\ AtNonceEntry(p)) =>
          /\ proc'[p].pc \in {"refresh", "idle"}
          /\ proc'[p].err \in {"stopped", "check", "gas"}
          /\ nonceTracker' = nonceTracker]_vars

\* C6 witness: an operation ended with getNextNonce's cancellation error.
C6_Witness == \E p \in Procs : proc[p].err = "stopped"

\* C7: once a stop is requested while a cycle runs, that cycle starts no
\* further operation attempt.
C7_NoAttemptAfterStop ==
  [][\A p \in Bodies : AttemptStarts(p) => ~proc[p].stopSeen]_vars

\* C8: the scheduler does not report idle (isCycleRunning false, stop flag
\* cleared) while an operation attempt of a cycle is in flight.
C8_NoIdleWhileInFlight ==
  (~isCycleRunning /\ ~shouldStop) => \A p \in Bodies : proc[p].pc \notin OpPcs

\* C9: after a stop was reported complete and until the user starts again, no
\* next-cycle timer is pending, no attempt starts and no cycle starts.
C9_NothingAfterStopReported ==
  [][stoppedIdle' =>
       /\ dailyActivityInterval' # "live" /\ leakedTimers' = 0
       /\ \A p \in Bodies : ~AttemptStarts(p)]_vars

\* What the code's stop handlers establish when they report the stop complete.
StopCompleted ==
  ~isCycleRunning /\ ~activityRunning /\ ~shouldStop /\ activeProcesses = 0

\* C10: with chain responses and timers scheduled fairly, every stop request
\* is followed by a state where running is false, the stop flag is cleared
\* and the in-flight counter is zero: the request either reaches that state
\* at once or sets the stop flag, and a set stop flag leads to that state.
C10_StopLeadsToIdle ==
  /\ [][Stop => (StopCompleted' \/ shouldStop')]_vars
  /\ (shouldStop ~> StopCompleted)

\* C10 witness: a stop has been reported complete, no interval is left and
\* every cycle is gone.
C10_Witness ==
  /\ stoppedIdle /\ StopCompleted
  /\ menuWatchers = 0 /\ finallyWatchers = 0
  /\ \A p \in Bodies : proc[p].pc = "idle"

\* An attempt is waiting for the receipt of its main transaction or of its
\* approval transaction.
AwaitsReceipt(p) == proc[p].pc \in {"confirm", "apWait"}

\* C11: an attempt that waits for a receipt, of the main transaction or of the
\* approval transaction, leaves that wait even when the chain never returns
\* the receipt.
C11_ReceiptWaitEnds ==
  \A p \in Bodies : AwaitsReceipt(p) ~> ~AwaitsReceipt(p)

\* A runDailyActivity execution returns in this step: one that was suspended,
\* or one that was entered and ran to its end without an await.
CycleEnds ==
  \/ \E p \in Bodies : proc[p].pc # "idle" /\ proc'[p].pc = "idle"
  \/ (Start \/ TimerFire) /\ proc' = proc

\* C12: no error while a wallet is processed ends the cycle: a cycle without a
\* stop request returns only after its last wallet, with the next cycle
\* scheduled.
C12_ErrorsNeverEndTheCycle ==
  [][CycleEnds /\ ~shouldStop =>
       /\ selectedWalletIndex' = NumAccounts
       /\ dailyActivityInterval' = "live"]_vars

\* The place of a kind in a wallet's sequence of loops.
KindIndex(k) == CASE k = "stake" -> 1 [] k = "unstake" -> 2 [] OTHER -> 3

\* Attempt x is not later in the cycle's order than attempt y.
NotAfter(x, y) == x[1] < y[1] \/ (x[1] = y[1] /\ KindIndex(x[2]) <= KindIndex(y[2]))

\* C13: the attempts of a cycle start one at a time, each after the one before
\* it reached its outcome, wallet by wallet in file order and within a wallet
\* stake repetitions, then unstake repetitions, then claim repetitions.
C13_AttemptsInOrderOneAtATime ==
  [][\A p \in Bodies : AttemptStarts(p) =>
        /\ proc[p].pc \in {"idle", "refresh", "sleep"}
        /\ \E x \in Accounts \X CycleKinds :
              /\ proc'[p].done = Append(proc[p].done, x)
              /\ x = << proc'[p].a, proc'[p].kind >>
              /\ \A i \in 1..Len(proc[p].done) : NotAfter(proc[p].done[i], x)]_vars

\* A cycle reached the claim of its second wallet after stake, unstake and
\* claim of the first.
C13_Witness ==
  \E p \in Bodies :
    /\ proc[p].pc = "count"
    /\ proc[p].a = 2
    /\ \E i, j \in 1..Len(proc[p].done) :
          /\ proc[p].done[i] = << 1, "claim" >>
          /\ proc[p].done[j] = << 2, "unstake" >>

\* How many attempts of kind k for wallet a execution p has started.
AttemptCount(p, a, k) ==
  Cardinality({i \in 1..Len(proc[p].done) : proc[p].done[i] = << a, k >>})

\* C14: when a cycle over valid wallets returns without a stop request, every
\* wallet has received exactly as many stake, unstake and claim attempts as
\* config.json states for the kind, and none of a kind whose count is 0.
C14_ExactlyTheConfiguredAttempts ==
  [][\A p \in Bodies :
       /\ proc[p].pc # "idle" /\ proc'[p].pc = "idle"
       /\ ~shouldStop
       /\ \A a \in 1..NumAccounts : ValidKey(a)
       => \A a \in 1..NumAccounts : \A k \in CycleKinds :
            AttemptCount(p, a, k) = Max(0, configFile[k])]_vars

\* C15: in a cycle without a stop request every attempt but the first starts
\* when a delay returns, whatever the repetition counts: between repetitions,
\* between one kind and the next kind that has attempts, and between wallets.
C15_DelayBetweenAttempts ==
  [][\A p \in Bodies :
       AttemptStarts(p) /\ proc[p].done # << >> /\ ~shouldStop
       => proc[p].pc = "sleep"]_vars

\* The next-cycle timers that are pending: the one the handle refers to and
\* the ones the handle lost.
PendingTimers == (IF dailyActivityInterval = "live" THEN 1 ELSE 0) + leakedTimers

\* C16: when a cycle returns after its last wallet and no stop was requested
\* while it ran, exactly one next-cycle timer is pending and the scheduler
\* reports waiting; when a stop was requested while it ran, no timer is armed.
C16_TimerArmedUnlessStopped ==
  [][\A p \in Bodies :
       proc[p].pc # "idle" /\ proc'[p].pc = "idle"
       => IF proc[p].stopSeen
          THEN dailyActivityInterval' # "live"
          ELSE /\ PendingTimers' = 1
               /\ isCycleRunning' /\ ~activityRunning']_vars

\* The awaits of approveToken after its allowance read.
ApprovalPcs == {"apFee", "apNonce", "apSend", "apWait"}

\* C17: approveToken broadcasts no transaction when the allowance it reads is
\* at least the amount, and exactly one when it is below; the value it
\* approves is the requested amount.
C17_ApprovalOnlyWhenNeeded ==
  [][\A p \in Procs :
       /\ \A allowance \in TokenAmounts :
            ReadAllowance(p, allowance) =>
              IF allowance >= proc[p].amt
              THEN proc'[p].pc \notin ApprovalPcs /\ proc'[p].approved = Absent
              ELSE proc'[p].pc = "apFee" /\ proc'[p].approved = proc[p].amt
       /\ (proc[p].pc \notin ApprovalPcs /\ proc'[p].pc \in ApprovalPcs)
            => proc[p].pc = "allowance"
       /\ proc'[p].approvals > proc[p].approvals
            => /\ proc[p].pc = "apSend" /\ proc'[p].pc = "apWait"
               /\ proc[p].approvals = 0 /\ proc'[p].approvals = 1
               /\ proc[p].approved = proc[p].amt
       /\ (proc[p].pc \in ApprovalPcs /\ proc'[p].pc \notin ApprovalPcs \cup {"refresh"})
            => proc[p].approvals = 1 /\ proc'[p].approvals = 1]_vars

\* An attempt broadcast its approval for the amount and went on to its own
\* transaction.
C17_Witness ==
  \E p \in Bodies : /\ proc[p].pc = "send"
                    /\ proc[p].approvals = 1
                    /\ proc[p].approved = proc[p].amt

\* C18: when the approval transaction of a stake or unstake attempt is refused
\* at broadcast or comes back reverted, the attempt ends in failure with that
\* error and nothing further is broadcast for it.
C18_ApprovalFailureEndsAttempt ==
  [][\A p \in Bodies :
       /\ (proc[p].pc = "apWait" /\ Receipt(p, 0))
            => /\ proc'[p].pc = "refresh"
               /\ proc'[p].err = "approveReverted"
               /\ pendingCount' = pendingCount
       /\ \A err \in {"nonce", "other"} :
            (proc[p].pc = "apSend" /\ BroadcastFails(p, err))
            => /\ proc'[p].pc = "refresh"
               /\ proc'[p].err = err
               /\ pendingCount' = pendingCount]_vars

\* A stake or unstake attempt ended on its reverted approval.
C18_Witness ==
  \E p \in Bodies : proc[p].pc = "refresh" /\ proc[p].err = "approveReverted"

\* C19: the token balance check of stake (WETH), unstake (eXETH) and unwrap
\* (WETH) rejects the attempt when the balance is below the amount and accepts
\* it when the balance equals or exceeds the amount; a rejected attempt
\* broadcasts nothing and leaves the nonce tracker as it was.
C19_BalanceCheckRejectsOnlyBelow ==
  [][\A p \in Procs : \A balance \in NativeAmounts :
       (proc[p].pc = "balance" /\ ReadBalance(p, balance))
       => IF balance < proc[p].amt
          THEN /\ proc'[p].pc \in {"refresh", "idle"}
               /\ proc'[p].err = "balance"
               /\ nonceTracker' = nonceTracker
               /\ pendingCount' = pendingCount
          ELSE /\ proc'[p].pc = NextRead(proc[p].kind, "balance")
               /\ proc'[p].err = "none"]_vars

\* A stake for the largest amount passed its balance check: no balance the
\* token contract can report here exceeds that amount, so the balance read
\* equalled it.
C19_Witness ==
  \E p \in Bodies : /\ proc[p].kind = "stake"
                    /\ proc[p].pc = "allowance"
                    /\ proc[p].amt = MaxAmount

\* C20: a wrap goes on to reserve a nonce and broadcast only if the native
\* balance it read is at least amount + gasFee * gasLimit; when the balance
\* covers the amount but not amount plus gas, the wrap fails without reserving
\* a nonce and without broadcasting.
C20_WrapNeedsAmountPlusGas ==
  [][\A p \in Procs :
       /\ \A gasCost \in GasCosts :
            WrapGasCheck(p, gasCost) =>
              IF proc[p].bal >= proc[p].amt + gasCost
              THEN proc'[p].pc = "nonce" \/ proc'[p].err = "stopped"
              ELSE /\ proc'[p].pc = "idle"
                   /\ proc'[p].err = "gas"
                   /\ nonceTracker' = nonceTracker
                   /\ handed' = handed
                   /\ pendingCount' = pendingCount
       /\ (proc[p].kind = "wrap" /\ proc[p].pc # "nonce" /\ proc'[p].pc = "nonce")
            => /\ proc[p].pc = "fee"
               /\ \E gasCost \in GasCosts : proc[p].bal >= proc[p].amt + gasCost]_vars

\* A wrap failed its gas check: the balance covered the amount, not the gas.
C20_Witness == proc[Swapper].pc = "idle" /\ proc[Swapper].err = "gas"

\* C21: performClaim fails with the no-withdraw-request error when the count
\* of outstanding requests is 0, fails with the not-ready error when createdAt
\* + coolDown is later than the latest block's timestamp, and proceeds when it
\* is not later (equal included); a failure leads to no fee query, no nonce
\* reservation and no broadcast.
C21_ClaimPreconditions ==
  [][\A p \in Bodies :
       /\ \A count \in RequestCounts :
            ReadCount(p, count) =>
              IF count = 0
              THEN /\ proc'[p].pc = "refresh" /\ proc'[p].err = "noRequest"
                   /\ nonceTracker' = nonceTracker /\ pendingCount' = pendingCount
              ELSE proc'[p].pc = "request"
       /\ \A now \in BlockTimes :
            ReadBlock(p, now) =>
              IF proc[p].createdAt + proc[p].coolDown <= now
              THEN proc'[p].pc = "fee" /\ proc'[p].err = "none"
              ELSE /\ proc'[p].pc = "refresh" /\ proc'[p].err = "notReady"
                   /\ nonceTracker' = nonceTracker /\ pendingCount' = pendingCount]_vars

\* A claim proceeded to its fee query with createdAt + coolDown at the largest
\* timestamp a block can carry here: the block's timestamp equalled the sum.
C21_Witness ==
  \E p \in Bodies : /\ proc[p].kind = "claim"
                    /\ proc[p].pc = "fee"
                    /\ proc[p].createdAt + proc[p].coolDown = 2 * MaxTime

\* Execution p's getNextNonce returns for the first time in its cycle: in the
\* cycle's first attempt, for the approval or, when none is needed, for the
\* main transaction.
FirstReservation(p) ==
  /\ Reserves(p)
  /\ Len(proc[p].done) = 1
  /\ proc[p].pc = "apNonce" \/ proc[p].approved = Absent

InFlight == {p \in Procs : proc[p].pc \in OpPcs}

\* C23: at most one operation (an attempt of a cycle or a one-shot wrap or
\* unwrap) is in flight at any time.
C23_OneOperationInFlight == Cardinality(InFlight) <= 1

\* C24: whatever documents were loaded and whatever edits were made, the run
\* configuration has non-negative repetition counts, ranges with min <= max
\* and loopHours >= 1.
C24_RunConfigWellFormed ==
  /\ \A k \in RepTypes : dailyActivityConfig[k] >= 0
  /\ \A r \in RangeTypes : dailyActivityConfig[r].min <= dailyActivityConfig[r].max
  /\ dailyActivityConfig.loopHours >= 1

\* C25: loading config.json yields the persisted value of every field that is
\* present and valid (a repetition count of 0 included) and the default for
\* an absent field, so that saving a valid configuration and loading it again
\* gives the same configuration.
C25_LoadKeepsPersistedValues ==
  /\ \A k \in RepTypes :
       /\ configFile[k] = NaN => LoadConfig(configFile)[k] = 1
       /\ configFile[k] # NaN /\ configFile[k] >= 0 =>
            LoadConfig(configFile)[k] = configFile[k]
  /\ configFile.loopHours = NaN => LoadConfig(configFile).loopHours = 24
  /\ configFile.loopHours >= 1 =>
       LoadConfig(configFile).loopHours = configFile.loopHours
  /\ \A r \in RangeTypes :
       /\ configFile[r].min > 0 => LoadConfig(configFile)[r].min = configFile[r].min
       /\ configFile[r].max > 0 => LoadConfig(configFile)[r].max = configFile[r].max
  /\ C24_RunConfigWellFormed =>
       LoadConfig(SaveConfig(configFile, dailyActivityConfig, TRUE)) = dailyActivityConfig

C27_SwapRunsEveryWallet ==
  [][/\ proc[Swapper].pc = "idle" /\ proc'[Swapper].pc # "idle" =>
          proc'[Swapper].a = 1
     /\ proc[Swapper].pc # "idle" /\ proc'[Swapper].pc = "idle" =>
          proc[Swapper].a = NumAccounts]_vars

\* C28: in a stake or unstake attempt no transaction, approval or main, is
\* broadcast unless a gas check of the attempt has passed before.
C28_GasCheckedBeforeEveryBroadcast ==
  \A p \in Procs :
    proc[p].kind \in {"stake", "unstake"} /\ proc[p].pc \in {"apSend", "send"} =>
      proc[p].gasOk

\* The phase of an attempt an await belongs to: 1 PreconditionCheck (balance,
\* allowance and claim readiness reads), 2 Approving, 3 FeeEstimate (fee
\* parameters and the gas check made with them), 4 NonceReserve, 5 Submit,
\* 6 Confirming, 7 no attempt in progress.
Phase(pc) ==
  CASE pc \in ValuePcs    -> 1
    [] pc \in ApprovalPcs -> 2
    [] pc \in {"fee", "gas"} -> 3
    [] pc = "nonce"        -> 4
    [] pc = "send"         -> 5
    [] pc = "confirm"      -> 6
    [] OTHER               -> 7

\* C29: an attempt moves through its phases in order (Approving is entered
\* from the allowance read of a stake or unstake only, and may be skipped),
\* ends from any phase with exactly one outcome, of which Confirmed, Reverted
\* and TimedOut come from Confirming only; after the end the next step of the
\* execution is the first check of a new attempt; the main nonce is reserved
\* only when the gas check, the last of the checks, has passed.
C29_PhasesInOrder ==
  [][\A p \in Procs :
       LET f == Phase(proc[p].pc)
           t == Phase(proc'[p].pc)
       IN  proc'[p].pc # proc[p].pc =>
             /\ f < 7 => t = f \/ t = f + 1 \/ (f = 1 /\ t = 3) \/ t = 7
             /\ f # 2 /\ t = 2 =>
                  proc[p].kind \in {"stake", "unstake"} /\ proc[p].pc = "allowance"
             /\ f < 7 /\ t = 7 /\ proc'[p].err \in {"none", "reverted", "timeout"} => f = 6
             /\ f = 7 /\ t < 7 =>
                  proc'[p].pc = FirstPc(proc'[p].kind) /\ proc'[p].err = "none"
             /\ t = 4 => proc'[p].gasOk /\ proc[p].pc \in {"fee", "gas"}]_vars

\* A stake or unstake that needed an approval awaits the receipt of its main
\* transaction: it has been through every phase up to Confirming.
C29_Witness ==
  \E p \in Bodies :
    /\ proc[p].pc = "confirm"
    /\ proc[p].approvals = 1
    /\ proc[p].gasOk

\* C30: an attempt broadcasts at most one approval transaction and at most one
\* main transaction; the counts start again with the next attempt only.
C30_OneBroadcastPerAttempt ==
  \A p \in Procs : proc[p].approvals <= 1 /\ proc[p].sent <= 1

\* An attempt has broadcast its approval and its main transaction, and the
\* wallet's tracker is ahead of the chain, so the chain would take a second
\* transaction with a nonce of its own.
C30_Witness ==
  \E p \in Bodies :
    /\ proc[p].approvals = 1 /\ proc[p].sent = 1
    /\ proc[p].nonce > pendingCount[proc[p].a]

\* C31: an attempt that awaits the receipt of its main transaction ends
\* Reverted exactly when a receipt with status 0 arrives, Confirmed exactly
\* when a receipt with another status arrives, TimedOut exactly when the timer
\* fires first; the outcomes exclude each other and only Confirmed leaves no
\* error.
C31_OutcomeFollowsReceipt ==
  [][\A p \in Procs :
       proc[p].pc = "confirm" /\ proc'[p].pc # "confirm" =>
         /\ Receipt(p, 0) \/ Receipt(p, 1) \/ ConfirmTimeout(p)
         /\ Receipt(p, 0) <=> proc'[p].err = "reverted"
         /\ Receipt(p, 1) <=> proc'[p].err = "none" /\ proc'[p].pc = "refresh"
         /\ ConfirmTimeout(p) <=> proc'[p].err = "timeout"]_vars

\* A main transaction was broadcast and its receipt came with status 0: the
\* attempt has ended with the revert error.
C31_Witness ==
  \E p \in Procs : proc[p].err = "reverted"

\* C32 as claimed: getFeeParams returns type-2 parameters exactly when the
\* answer holds both maxFeePerGas and maxPriorityFeePerGas, otherwise legacy
\* parameters with the answer's gasPrice, or 1 gwei when it holds none or the
\* query failed.
C32_FeeParamsByReportedValues ==
  feeParams # NoParams =>
    IF feeData.error
    THEN feeParams = Legacy(OneGwei)
    ELSE IF feeData.maxFeePerGas # Absent /\ feeData.maxPriorityFeePerGas # Absent
         THEN feeParams = [NoParams EXCEPT !.type = 2,
                             !.maxFeePerGas = feeData.maxFeePerGas,
                             !.maxPriorityFeePerGas = feeData.maxPriorityFeePerGas]
         ELSE feeParams = Legacy(IF feeData.gasPrice # Absent
                                 THEN feeData.gasPrice ELSE OneGwei)

\* C32 amended: a reported value of 0 counts as not reported.  getFeeParams
\* always returns (type 0 or 2); type 2 exactly when both maxFeePerGas and
\* maxPriorityFeePerGas are reported and non-zero, otherwise legacy with the
\* reported non-zero gasPrice or 1 gwei, and legacy 1 gwei on a query error.
C32_FeeParamsByNonZeroValues ==
  feeParams # NoParams =>
    /\ feeParams.type \in {0, 2}
    /\ IF feeData.error
       THEN feeParams = Legacy(OneGwei)
       ELSE IF feeData.maxFeePerGas \notin {Absent, 0}
               /\ feeData.maxPriorityFeePerGas \notin {Absent, 0}
            THEN feeParams = [NoParams EXCEPT !.type = 2,
                                !.maxFeePerGas = feeData.maxFeePerGas,
                                !.maxPriorityFeePerGas = feeData.maxPriorityFeePerGas]
            ELSE feeParams = Legacy(IF feeData.gasPrice \notin {Absent, 0}
                                    THEN feeData.gasPrice ELSE OneGwei)

\* The network reported a priority fee of 0 next to a maximum fee and a gas
\* price, and getFeeParams returned legacy parameters with that gas price.
C32_Witness ==
  /\ ~feeData.error
  /\ feeData.maxFeePerGas = MaxFee /\ feeData.maxPriorityFeePerGas = 0
  /\ feeData.gasPrice = MaxFee
  /\ feeParams = Legacy(feeData.gasPrice)

\* C33: a delay is started only while the stop flag is clear (the loops and
\* sleep() itself skip it otherwise, the counter untouched); while a delay is
\* pending and the stop flag is set, its poll can end it; and the end of a
\* delay takes from the counter exactly the one its start added.
C33_DelayHonoursStop ==
  /\ [](\A p \in Bodies :
         proc[p].pc = "sleep" /\ shouldStop => ENABLED SleepPoll(p))
  /\ [][\A p \in Bodies :
         LET ends   == SleepTimeout(p) \/ SleepPoll(p)
             starts == proc'[p].pc = "sleep" /\ (proc[p].pc # "sleep" \/ ends)
         IN  /\ starts => ~shouldStop'
             /\ ends \/ starts =>
                  activeProcesses' = activeProcesses
                                       - (IF ends THEN 1 ELSE 0)
                                       + (IF starts THEN 1 ELSE 0)
             /\ ends /\ shouldStop => ~starts]_vars

\* A stop came while a delay was pending (the Stop handler armed its watcher),
\* the delay has ended, the cycle has run to its end and reported the stop as
\* complete: the counter is back at 0.
C33_Witness ==
  /\ menuWatchers = 1
  /\ stoppedIdle
  /\ activeProcesses = 0
  /\ \A p \in Bodies : proc[p].pc = "idle"

\* C34 as claimed: the amount drawn for a stake or an unstake lies within the
\* configured range after the rounding to 4 decimals, and is the 4-decimal
\* form of min when min = max.
C34_AmountWithinRange ==
  amount # Absent =>
    /\ fineRange.min <= amount /\ amount <= fineRange.max
    /\ fineRange.min = fineRange.max => amount = ((fineRange.min + 5) \div 10) * 10

\* C34 amended: the amount is a multiple of 0.0001 between the 4-decimal
\* roundings of min and of max, and is the rounding of min when min = max; it
\* may lie below min or above max by less than 0.0001.
C34_AmountWithinRoundedRange ==
  amount # Absent =>
    /\ amount % 10 = 0
    /\ ((fineRange.min + 5) \div 10) * 10 <= amount
    /\ amount <= ((fineRange.max + 5) \div 10) * 10
    /\ fineRange.min = fineRange.max => amount = ((fineRange.min + 5) \div 10) * 10

\* From a range with min < max whose bounds are no multiples of 0.0001 an
\* amount was drawn that the rounding took below min.
C34_Witness ==
  /\ amount # Absent
  /\ fineRange.min < fineRange.max
  /\ amount < fineRange.min
  /\ amount > 0

\* The executions of runDailyActivity that have not returned.
ActiveBodies == {p \in Bodies : proc[p].pc # "idle"}

\* C35: at most one execution of the cycle body is active at any time, and
\* isCycleRunning is true whenever one is.
C35_OneCycleBody ==
  /\ Cardinality(ActiveBodies) <= 1
  /\ ActiveBodies # {} => isCycleRunning

\* C36: the wrap or unwrap that a submitted amount starts runs on the wallet
\* the user picked in the wallet list, whatever a running cycle did between
\* the pick and the submission.
C36_SwapOnChosenWallet ==
  [][\A k \in SwapKinds : \A amt \in 1..MaxAmount :
       AmountSubmit(k, amt) => proc'[Swapper].a = chosenWallet]_vars

\* C37: no nonce is skipped: a transaction the chain takes from the program
\* carries the wallet's pending count of that moment, so every lower nonce
\* has been used.  (A taken nonce above the pending count is neither the
\* pending count of its reservation, which was lower still, nor the successor
\* of a nonce that was broadcast; its transaction waits for the missing ones.)
C37_NoNonceSkipped ==
  [][\A p \in Procs :
       Broadcast(p) => proc[p].nonce = pendingCount[proc[p].a]]_vars

\* C38: at most one next-cycle timer is pending, no pending timer is out of
\* the handle's reach, and the handle is non-null only while the timer it
\* refers to is pending.
C38_HandleTracksTheTimer ==
  /\ PendingTimers <= 1
  /\ leakedTimers = 0
  /\ dailyActivityInterval # "null" => dailyActivityInterval = "live"

\* The delays suspended now: sleep() calls between line 248 and line 269.
SuspendedDelays == {p \in Bodies : proc[p].pc = "sleep"}

\* C40: in every reachable state activeProcesses is non-negative and equals
\* the number of suspended delays, so no stop handler, stop-completion watcher
\* or cycle end has reset it to 0 while a delay was still suspended.
C40_CounterCountsDelays ==
  /\ activeProcesses >= 0
  /\ activeProcesses = Cardinality(SuspendedDelays)

\* Two delays are suspended at once, a stop was requested and its
\* stop-completion watcher is armed.
C40_Witness ==
  /\ Cardinality(SuspendedDelays) = 2
  /\ activeProcesses = 2
  /\ shouldStop
  /\ menuWatchers > 0
====
